---------------------------- MODULE Spec2Model ----------------------------
(***************************************************************************)
(* A model of the archive harvester's bounded recursive directory crawler  *)
(* (scripts/directory_crawler.py) and of its security-gated, retrying      *)
(* download pipeline (scripts/file_manager.py, scripts/error_handler.py).  *)
(***************************************************************************)
EXTENDS Integers, Sequences, FiniteSets, TLC

VARIABLES
    config,                  \* CrawlConfig of the crawler instance
    visited_urls,            \* DirectoryCrawler.visited_urls
    discovered_files,        \* DirectoryCrawler.discovered_files
    discovered_directories,  \* DirectoryCrawler.discovered_directories
    errors,                  \* DirectoryCrawler.errors
    stack,                   \* call stack of _crawl_recursive, top first
    cpc,                     \* "idle" | "running": position of crawl_directory
    call,                    \* arguments of the crawl_directory call in progress
    results,                 \* CrawlResult objects returned so far
    getLog,                  \* session.get calls of the crawl in progress
    linksLeft,               \* links and items the servers may still list
    fm,                      \* FileManager: max_retries, max_file_size_bytes
    fsFile,                  \* the file at target_path, or NoFile
    fsDir,                   \* whether target_path.parent exists
    th,                      \* per caller: position and locals of download_file
    probe,                   \* the URL handed to a URL check
    verdict,                 \* what the check returned, or None before the call
    batch,                   \* arguments of process_archives_by_category
    wf,                      \* position and locals of the executor
    processing_results       \* StateManager.processing_results

crawlVars == <<config, visited_urls, discovered_files, discovered_directories,
               errors, stack, cpc, call, results, getLog, linksLeft>>

dlVars == <<fm, fsFile, fsDir, th>>

fnVars == <<probe, verdict>>

wfVars == <<batch, wf, processing_results>>

vars == <<crawlVars, dlVars, fnVars, wfVars>>

-----------------------------------------------------------------------------
(* Bounds of the model *)

MaxDepth == 2
MaxPerDir == 2
MaxTotalFiles == 2
MaxLinks == 3
MaxCrawls == 2
ReuseLinks == 2
FairLinks == 2
MaxRetries == 2
MaxFileSize == 2
MaxUrlPieces == 1
MaxPathLen == 2
BlockLinks == 2
ScenarioLinks == 3
MaxCategories == 2
MaxArchives == 2
MaxBatchUrls == 2

\* an optional argument: None, or Some(v)
None == <<>>

Some(v) == <<v>>

-----------------------------------------------------------------------------
(* URLs.  A URL is its last path segment and that segment's suffix: "/"    *)
(* for a trailing slash, otherwise the file extension.                     *)

Url(name, ext) == [name |-> name, ext |-> ext]

SeedUrls == {Url("s", "/"), Url("f", ".pdf")}

URLs == {Url("s", "/"), Url("a", "/"), Url("Admin", "/"),
         Url("f", ".pdf"), Url("g", ".pdf"), Url("z", ".zip")}

Lower(name) == IF name = "Admin" THEN "admin" ELSE name

allowed_extensions == {".pdf", ".doc", ".docx", ".txt", ".html"}

\* the default of CrawlConfig.blocked_patterns
blocked_patterns == {"admin", "login", "auth", "private", "secure"}

file_patterns == {".pdf", ".doc", ".docx", ".txt", ".htm", ".html", ".rtf", ".odt"}

\* a crawler that records a file only when no blocked substring matches
_is_downloadable_file_Unblocked(url) ==
    /\ \/ url.ext \in allowed_extensions
       \/ url.ext \in file_patterns
    /\ ~\E pattern \in config.blocked_patterns : pattern = Lower(url.name)

_is_downloadable_file(url) ==
    \/ url.ext \in allowed_extensions
    \/ url.ext \in file_patterns

\* link: an <a href> of an HTML listing, resolved against the page
_looks_like_directory(link) ==
    \/ link.url.ext = "/"
    \/ link.url.ext = ""
    \/ link.text_dir

\* pattern in url.lower(): the URL is lower-cased, the pattern is taken as
\* it was configured
_is_blocked_url(url) ==
    \E pattern \in config.blocked_patterns : pattern = Lower(url.name)


-----------------------------------------------------------------------------
(* The listings a server can answer with *)

\* <a href> elements: relative links to every URL, a link whose text marks a
\* directory, and the fragment, mailto and parent links the parser skips
HtmlLinks ==
    {[href |-> "rel", url |-> u, text_dir |-> FALSE] : u \in URLs}
    \cup {[href |-> "rel", url |-> Url("z", ".zip"), text_dir |-> TRUE]}
    \cup {[href |-> h, url |-> Url("s", "/"), text_dir |-> FALSE] :
             h \in {"#", "mailto:", "..", "../", "./"}}

\* items of a JSON listing: strings, objects with a name and a type, objects
\* without a name, and an object whose name is not a string (urljoin raises)
JsonItems ==
    {[kind |-> "str", url |-> u, type |-> ""] : u \in URLs}
    \cup {[kind |-> "dict", url |-> u, type |-> t] :
             u \in URLs \ {Url("z", ".zip")}, t \in {"", "directory"}}
    \cup {[kind |-> "dict", url |-> Url("z", ".zip"), type |-> t] :
             t \in {"", "file", "directory"}}
    \cup {[kind |-> k, url |-> Url("s", "/"), type |-> ""] : k \in {"noname", "badname"}}

Frame(url, depth, phase, n) ==
    [url |-> url, depth |-> depth, phase |-> phase, n |-> n, i |-> 0,
     files_in_directory |-> 0]

Top == Head(stack)

Error(kind, url) == [kind |-> kind, url |-> url]

-----------------------------------------------------------------------------
(* DirectoryCrawler.crawl_directory, entry: reset the session, pick the depth *)

\* max_depth or self.config.max_depth
EffectiveDepth(max_depth) ==
    IF max_depth = None THEN config.max_depth
    ELSE IF max_depth[1] = 0 THEN config.max_depth
    ELSE max_depth[1]

CrawlDirectory(base_url, max_depth, links) ==
    /\ cpc = "idle"
    /\ linksLeft' = links
    /\ visited_urls' = {}
    /\ discovered_files' = <<>>
    /\ discovered_directories' = <<>>
    /\ errors' = <<>>
    /\ getLog' = <<>>
    /\ call' = [base_url |-> base_url, crawl_depth |-> EffectiveDepth(max_depth),
                links |-> links]
    /\ stack' = <<Frame(base_url, 0, "enter", 0)>>
    /\ cpc' = "running"
    /\ UNCHANGED <<dlVars, fnVars, wfVars>>
    /\ UNCHANGED <<config, results>>

-----------------------------------------------------------------------------
(* DirectoryCrawler._crawl_recursive *)

\* the depth check left out
DepthLimitReached_Never(current_depth, max_depth) == FALSE

\* the comparison off by one
DepthLimitReached_OffByOne(current_depth, max_depth) == current_depth > max_depth

DepthLimitReached(current_depth, max_depth) == current_depth >= max_depth

FileLimitReached == Len(discovered_files) >= config.max_total_files

\* the visited check left out
AlreadyVisited_Never(url) == FALSE

AlreadyVisited(url) == url \in visited_urls

\* the limit checks at the head of _crawl_recursive, then visited_urls.add
CrawlRecursiveEnter ==
    /\ cpc = "running"
    /\ stack # <<>>
    /\ Top.phase = "enter"
    /\ IF \/ DepthLimitReached(Top.depth, call.crawl_depth)
          \/ FileLimitReached
          \/ AlreadyVisited(Top.url)
          \/ _is_blocked_url(Top.url)
       THEN /\ stack' = Tail(stack)
            /\ UNCHANGED visited_urls
       ELSE /\ visited_urls' = visited_urls \cup {Top.url}
            /\ stack' = <<[Top EXCEPT !.phase = "fetch"]>> \o Tail(stack)
    /\ UNCHANGED <<dlVars, fnVars, wfVars>>
    /\ UNCHANGED <<config, discovered_files, discovered_directories, errors,
                   cpc, call, results, getLog, linksLeft>>

\* the except clauses of _crawl_recursive: the error message's prefix, or ""
\* when the exception is not caught there
CrawlRecursiveHandler_RequestOnly(exc) ==
    IF exc = "RequestException" THEN "Failed to crawl" ELSE ""

CrawlRecursiveHandler(exc) ==
    IF exc = "RequestException" THEN "Failed to crawl"
    ELSE "Unexpected error crawling"

ParseHandler(phase) ==
    IF phase = "html" THEN "Error parsing HTML directory"
    ELSE "Error parsing JSON directory"

\* an exception raised by the fetch of the top frame travels to the nearest
\* handler: _crawl_recursive's own, else the parse loop of the caller, else
\* crawl_directory's guard
RaiseInFetch(exc) ==
    LET k == CrawlRecursiveHandler(exc) IN
    IF k # ""
    THEN /\ errors' = Append(errors, Error(k, Top.url))
         /\ stack' = Tail(stack)
    ELSE IF Len(stack) >= 2
    THEN /\ errors' = Append(errors, Error(ParseHandler(stack[2].phase), stack[2].url))
         /\ stack' = Tail(Tail(stack))
    ELSE /\ errors' = Append(errors, Error("Critical crawling error", Top.url))
         /\ stack' = <<>>

\* session.get, raise_for_status and the dispatch on the content type
Fetch ==
    /\ cpc = "running"
    /\ stack # <<>>
    /\ Top.phase = "fetch"
    /\ getLog' = Append(getLog, [url |-> Top.url, depth |-> Top.depth])
    /\ \/ \E exc \in {"RequestException", "Exception"} :
             /\ RaiseInFetch(exc)
             /\ UNCHANGED <<discovered_files, linksLeft>>
       \/ \E kind \in {"html", "json"}, n \in 0..linksLeft :
             /\ stack' = <<[Top EXCEPT !.phase = kind, !.n = n]>> \o Tail(stack)
             /\ linksLeft' = linksLeft - n
             /\ UNCHANGED <<discovered_files, errors>>
       \/ /\ discovered_files' =
                IF _is_downloadable_file(Top.url)
                THEN Append(discovered_files, Top.url) ELSE discovered_files
          /\ stack' = Tail(stack)
          /\ UNCHANGED <<errors, linksLeft>>
    /\ UNCHANGED <<dlVars, fnVars, wfVars>>
    /\ UNCHANGED <<config, visited_urls, discovered_directories, cpc, call, results>>

-----------------------------------------------------------------------------
(* DirectoryCrawler._parse_html_directory: one iteration of the link loop *)

InSeq(x, seq) == \E k \in DOMAIN seq : seq[k] = x

\* a loop that passes over every other link
Advance_SkipOne(frame) == [frame EXCEPT !.i = frame.i + 2]

\* the for loop moves on to the next link of the listing
Advance(frame) == [frame EXCEPT !.i = frame.i + 1]

\* a parser that skips fragments and mail addresses only
SkippedHref_NoParent(href) == href \in {"#", "mailto:"}

\* href.startswith('#'), href.startswith('mailto:'), href in ['..', '../', './']
SkippedHref(href) == href \in {"#", "mailto:", "..", "../", "./"}

\* the cap compared off by one
PerDirectoryLimitReached_OffByOne(files_in_directory) ==
    files_in_directory > config.max_files_per_directory

\* the test at the head of the link loop, before the break
PerDirectoryLimitReached(files_in_directory) ==
    files_in_directory >= config.max_files_per_directory

HtmlLink(link) ==
    /\ cpc = "running"
    /\ stack # <<>>
    /\ Top.phase = "html"
    /\ Top.i < Top.n
    /\ ~PerDirectoryLimitReached(Top.files_in_directory)
    /\ IF SkippedHref(link.href)
       THEN /\ stack' = <<Advance(Top)>> \o Tail(stack)
            /\ UNCHANGED <<discovered_files, discovered_directories>>
       ELSE IF _is_downloadable_file(link.url)
       THEN /\ UNCHANGED discovered_directories
            /\ IF ~InSeq(link.url, discovered_files)
               THEN /\ discovered_files' = Append(discovered_files, link.url)
                    /\ stack' = <<[Advance(Top) EXCEPT !.files_in_directory = @ + 1]>>
                                    \o Tail(stack)
               ELSE /\ stack' = <<Advance(Top)>> \o Tail(stack)
                    /\ UNCHANGED discovered_files
       ELSE IF _looks_like_directory(link) /\ ~InSeq(link.url, discovered_directories)
       THEN /\ discovered_directories' = Append(discovered_directories, link.url)
            /\ stack' = <<Frame(link.url, Top.depth + 1, "enter", 0), Advance(Top)>>
                            \o Tail(stack)
            /\ UNCHANGED discovered_files
       ELSE /\ stack' = <<Advance(Top)>> \o Tail(stack)
            /\ UNCHANGED <<discovered_files, discovered_directories>>
    /\ UNCHANGED <<dlVars, fnVars, wfVars>>
    /\ UNCHANGED <<config, visited_urls, errors, cpc, call, results, getLog, linksLeft>>

(* DirectoryCrawler._parse_json_directory: one iteration of the item loop *)

JsonItem(item) ==
    /\ cpc = "running"
    /\ stack # <<>>
    /\ Top.phase = "json"
    /\ Top.i < Top.n
    /\ IF item.kind = "badname"
       THEN \* urljoin raises inside the loop: the listing's own handler ends it
            /\ errors' = Append(errors, Error(ParseHandler("json"), Top.url))
            /\ stack' = Tail(stack)
            /\ UNCHANGED <<discovered_files, discovered_directories>>
       ELSE IF item.kind = "noname"
       THEN /\ stack' = <<Advance(Top)>> \o Tail(stack)
            /\ UNCHANGED <<discovered_files, discovered_directories, errors>>
       ELSE IF item.kind = "str"
       THEN /\ discovered_files' =
                  IF _is_downloadable_file(item.url)
                  THEN Append(discovered_files, item.url) ELSE discovered_files
            /\ stack' = <<Advance(Top)>> \o Tail(stack)
            /\ UNCHANGED <<discovered_directories, errors>>
       ELSE IF item.type = "file" \/ _is_downloadable_file(item.url)
       THEN /\ discovered_files' = Append(discovered_files, item.url)
            /\ stack' = <<Advance(Top)>> \o Tail(stack)
            /\ UNCHANGED <<discovered_directories, errors>>
       ELSE IF item.type = "directory"
       THEN /\ discovered_directories' = Append(discovered_directories, item.url)
            /\ stack' = <<Frame(item.url, Top.depth + 1, "enter", 0), Advance(Top)>>
                            \o Tail(stack)
            /\ UNCHANGED <<discovered_files, errors>>
       ELSE /\ stack' = <<Advance(Top)>> \o Tail(stack)
            /\ UNCHANGED <<discovered_files, discovered_directories, errors>>
    /\ UNCHANGED <<dlVars, fnVars, wfVars>>
    /\ UNCHANGED <<config, visited_urls, cpc, call, results, getLog, linksLeft>>

\* the loop ends (no link is left, or the per-directory break) and
\* _crawl_recursive returns to its caller
ListingReturn ==
    /\ cpc = "running"
    /\ stack # <<>>
    /\ \/ /\ Top.phase = "html"
          /\ \/ Top.i >= Top.n
             \/ PerDirectoryLimitReached(Top.files_in_directory)
       \/ /\ Top.phase = "json"
          /\ Top.i >= Top.n
    /\ stack' = Tail(stack)
    /\ UNCHANGED <<dlVars, fnVars, wfVars>>
    /\ UNCHANGED <<config, visited_urls, discovered_files, discovered_directories,
                   errors, cpc, call, results, getLog, linksLeft>>

-----------------------------------------------------------------------------
(* DirectoryCrawler.crawl_directory, exit: build the CrawlResult *)

\* the crawler's own list handed out instead of a copy
ListAlias(list) == [shared |-> TRUE, val |-> list]

\* list.copy(): the result holds a list of its own, not the crawler's
ListCopy(list) == [shared |-> FALSE, val |-> list]

CrawlDirectoryReturn ==
    /\ cpc = "running"
    /\ stack = <<>>
    /\ results' = Append(results,
           [base_url |-> call.base_url,
            discovered_files |-> ListCopy(discovered_files),
            discovered_directories |-> ListCopy(discovered_directories),
            total_files |-> Len(discovered_files),
            crawl_depth |-> call.crawl_depth,
            errors |-> ListCopy(errors)])
    /\ cpc' = "idle"
    /\ UNCHANGED <<dlVars, fnVars, wfVars>>
    /\ UNCHANGED <<config, visited_urls, discovered_files, discovered_directories,
                   errors, stack, call, getLog, linksLeft>>

\* what a caller reads in a list field of a CrawlResult
ReadList(ref, live) == IF ref.shared THEN live ELSE ref.val

-----------------------------------------------------------------------------
(* FileManager: the URLs, the security check *)

Threads == {1}

\* a path entry: gen numbers the files created at the path, bytes counts
\* chunks, pdf says whether the content starts with %PDF-
File(is_file, bytes, pdf, gen) ==
    [exists |-> TRUE, is_file |-> is_file, bytes |-> bytes, pdf |-> pdf, gen |-> gen,
     statable |-> TRUE]

NoFile ==
    [exists |-> FALSE, is_file |-> FALSE, bytes |-> 0, pdf |-> FALSE, gen |-> 0,
     statable |-> TRUE]

\* a path whose stat fails with an error other than "not found" (a name longer
\* than the file system allows, a parent that may not be searched):
\* Path.exists() raises the OSError
BadPath == [NoFile EXCEPT !.statable = FALSE]

\* target_path.unlink(missing_ok=True)
Unlink(file) == [NoFile EXCEPT !.gen = file.gen]

\* The text of a URL, cut into pieces: the scheme, the netloc, and the pieces
\* of the path and of the query string (no "?" when the query is empty).
UrlText(scheme, host, path, query) ==
    [scheme |-> scheme, host |-> host, path |-> path, query |-> query]

\* the pieces after the netloc, in the order of the string
Pieces(url) == url.path \o url.query

\* str.lower() of a piece
PieceLower(piece) ==
    CASE piece = "JavaScript:" -> "javascript:"
      [] piece = "%2E%2E%2F" -> "%2e%2e%2f"
      [] piece = ".PDF" -> ".pdf"
      [] piece = ".Docx" -> ".docx"
      [] piece = "/Neshat-1377" -> "/neshat-1377"
      [] OTHER -> piece

\* the strings of interest that occur inside a lower-case piece
Substrings(piece) ==
    CASE piece = "<script" -> {"<script", "<"}
      [] OTHER -> {piece}

\* urlparse lower-cases the scheme
SchemeLower(scheme) == IF scheme = "HTTPS" THEN "https" ELSE scheme

\* the scheme and its colon, as they stand in the lower-case string
SchemeColon(scheme) ==
    CASE SchemeLower(scheme) = "ftp" -> "ftp:"
      [] SchemeLower(scheme) = "file" -> "file:"
      [] SchemeLower(scheme) = "javascript" -> "javascript:"
      [] SchemeLower(scheme) = "http" -> "http:"
      [] SchemeLower(scheme) = "https" -> "https:"
      [] OTHER -> ""

\* text in url.lower()
Contains(url, text) ==
    \/ text = SchemeColon(url.scheme)
    \/ \E i \in 1..Len(Pieces(url)) : text \in Substrings(PieceLower(Pieces(url)[i]))

\* a download URL: scheme, host, whether the path ends in .pdf, whether the
\* string holds a suspicious pattern, and whether it holds a word that
\* _categorize_error reads as a network indicator
DUrl(scheme, host, pdf, suspicious, netword) ==
    UrlText(scheme, host,
            (IF netword THEN <<"network">> ELSE <<>>)
                \o (IF suspicious THEN <<"../">> ELSE <<>>)
                \o <<"doc">>
                \o (IF pdf THEN <<".pdf">> ELSE <<>>),
            <<>>)

GoodUrl == DUrl("https", "example.com", TRUE, FALSE, FALSE)

SafeUrls ==
    {GoodUrl,
     DUrl("http", "example.com", FALSE, FALSE, FALSE),
     DUrl("https", "example.com", TRUE, FALSE, TRUE)}

UnsafeUrls ==
    {DUrl("ftp", "example.com", TRUE, FALSE, FALSE),
     DUrl("https", "", TRUE, FALSE, FALSE),
     DUrl("https", "LocalHost", TRUE, FALSE, FALSE),
     DUrl("http", "10.0.0.1", TRUE, FALSE, FALSE),
     DUrl("https", "example.com", TRUE, TRUE, FALSE)}

DownloadUrls == SafeUrls \cup UnsafeUrls

ALLOWED_SCHEMES == {"http", "https"}

BLOCKED_DOMAINS == {"localhost", "127.0.0.1", "0.0.0.0", "::1"}

HostLower(host) == IF host = "LocalHost" THEN "localhost" ELSE host

\* urlparse(url).hostname: no port, no brackets, lower case; "" for None
Hostname(host) ==
    CASE host = ":80" -> ""
      [] host = "[::1]" -> "::1"
      [] host = "[fe80::1]" -> "fe80::1"
      [] OTHER -> HostLower(host)

_is_valid_url(url) ==
    url.scheme # "" /\ url.host # "" /\ SchemeLower(url.scheme) \in ALLOWED_SCHEMES

\* an _is_private_ip that knows no private address
_is_private_ip_Never(hostname) == FALSE

\* ipaddress.ip_address(hostname): private, loopback, link-local or multicast
_is_private_ip(hostname) ==
    hostname \in {"10.0.0.1", "192.168.1.1", "127.0.0.1", "169.254.1.1", "224.0.0.1",
                  "::1", "fe80::1"}

\* path.lower().endswith('.pdf')
_has_pdf_extension(url) ==
    url.path # <<>> /\ PieceLower(url.path[Len(url.path)]) = ".pdf"

suspicious_patterns ==
    {"../", "%2e%2e%2f", "javascript:", "data:", "file:", "ftp:", "@", "[<>\"']"}

\* re.search(pattern, url_lower)
re_search(pattern, url) ==
    IF pattern = "[<>\"']"
    THEN \E char \in {"<", ">", "\"", "'"} : Contains(url, char)
    ELSE Contains(url, pattern)

_has_suspicious_patterns(url) ==
    \E pattern \in suspicious_patterns : re_search(pattern, url)

network_indicators ==
    {"requests.exceptions", "connectionerror", "timeout", "httperror", "urlerror",
     "socket", "dns", "network", "connection", "unreachable"}

\* an error message that quotes the URL holds a network indicator
HasNetworkIndicator(url) ==
    \E indicator \in network_indicators : Contains(url, indicator)

\* <<is_safe, error_message>>
_is_safe_url(url) ==
    IF ~_is_valid_url(url)
    THEN <<FALSE, "Invalid URL format or unsupported scheme">>
    ELSE IF Hostname(url.host) = ""
    THEN <<FALSE, "URL must have a valid hostname">>
    ELSE IF Hostname(url.host) \in BLOCKED_DOMAINS
    THEN <<FALSE, "Access to domain is not allowed">>
    ELSE IF _is_private_ip(Hostname(url.host))
    THEN <<FALSE, "Access to private IP address is not allowed">>
    ELSE IF _has_suspicious_patterns(url)
    THEN <<FALSE, "URL contains suspicious patterns">>
    ELSE <<TRUE, "None">>

\* a download_file that never finds the target
file_exists_Never == FALSE

file_exists == fsFile.exists /\ fsFile.is_file

-----------------------------------------------------------------------------
(* RetryHandler *)

\* the category _categorize_error gives an exception of this type whose
\* message holds (or not) a network indicator word
_categorize_error(type, netword) ==
    IF type = "ConnectionError" \/ netword THEN "network"
    ELSE IF type = "OSError" THEN "filesystem"
    ELSE IF type = "ValueError" THEN "validation"
    ELSE "unknown"

\* an execute_with_retry that goes round once more than max_retries
ShouldRetry_OneMore(attempt, category) ==
    attempt <= fm.max_retries /\ category \in {"network"}

ShouldRetry(attempt, category) ==
    attempt < fm.max_retries /\ category \in {"network"}

Returned(me, success, message) ==
    [me EXCEPT !.pc = "done", !.ret = <<success, message>>, !.handle = -1]

\* the except branch of execute_with_retry for an exception raised by
\* _perform_download: sleep and go round again, or give up
Raise(me, type, message, netword) ==
    LET category == _categorize_error(type, netword) IN
    IF ShouldRetry(me.attempt, category)
    THEN [me EXCEPT !.pc = "attempt", !.attempt = @ + 1, !.sleeps = @ + 1,
                    !.handle = -1, !.last_error = message]
    ELSE Returned([me EXCEPT !.last_error = message], FALSE, message)

-----------------------------------------------------------------------------
(* FileManager.download_file, up to the first attempt *)

IdleThread ==
    [pc |-> "idle", url |-> GoodUrl, attempt |-> 0, gets |-> 0, sleeps |-> 0,
     handle |-> -1, total_size |-> 0, left |-> 0, sig |-> "pdf",
     ret |-> <<FALSE, "None">>, before |-> NoFile, met |-> {}, fetched |-> FALSE,
     oversize_declared |-> FALSE, last_error |-> ""]

\* a download_file that looks for the target before it checks the URL
DownloadFile_ExistsFirst(t, url) ==
    /\ th[t].pc = "idle"
    /\ LET entered == [th[t] EXCEPT !.url = url, !.before = fsFile] IN
       IF ~fsFile.statable
       THEN /\ th' = [th EXCEPT ![t] = [entered EXCEPT !.pc = "raised"]]
            /\ UNCHANGED fsDir
       ELSE IF file_exists
       THEN /\ th' = [th EXCEPT ![t] =
                        [entered EXCEPT !.pc = "done", !.ret = <<TRUE, "None">>]]
            /\ UNCHANGED fsDir
       ELSE IF ~_is_safe_url(url)[1]
       THEN /\ th' = [th EXCEPT ![t] =
                        [entered EXCEPT !.pc = "done",
                            !.ret = <<FALSE, "URL security validation failed">>]]
            /\ UNCHANGED fsDir
       ELSE \/ /\ ~fsDir
               /\ th' = [th EXCEPT ![t] =
                           [entered EXCEPT !.pc = "done", !.ret = <<FALSE, "OSError">>]]
               /\ UNCHANGED fsDir
            \/ /\ fsDir' = TRUE
               /\ th' = [th EXCEPT ![t] = [entered EXCEPT !.pc = "attempt"]]
    /\ UNCHANGED <<fm, fsFile>>
    /\ UNCHANGED <<crawlVars, fnVars, wfVars>>

DownloadFile(t, url) ==
    /\ th[t].pc = "idle"
    /\ LET entered == [th[t] EXCEPT !.url = url, !.before = fsFile] IN
       IF ~_is_safe_url(url)[1]
       THEN /\ th' = [th EXCEPT ![t] =
                        [entered EXCEPT !.pc = "done",
                            !.ret = <<FALSE, "URL security validation failed">>]]
            /\ UNCHANGED fsDir
       ELSE IF ~fsFile.statable
       THEN \* file_exists is called outside any try: the OSError of
            \* file_path.exists() leaves download_file
            /\ th' = [th EXCEPT ![t] = [entered EXCEPT !.pc = "raised"]]
            /\ UNCHANGED fsDir
       ELSE IF file_exists
       THEN /\ th' = [th EXCEPT ![t] =
                        [entered EXCEPT !.pc = "done", !.ret = <<TRUE, "None">>]]
            /\ UNCHANGED fsDir
       ELSE \* target_path.parent.mkdir(parents=True, exist_ok=True)
            \/ /\ ~fsDir
               /\ th' = [th EXCEPT ![t] =
                           [entered EXCEPT !.pc = "done", !.ret = <<FALSE, "OSError">>]]
               /\ UNCHANGED fsDir
            \/ /\ fsDir' = TRUE
               /\ th' = [th EXCEPT ![t] = [entered EXCEPT !.pc = "attempt"]]
    /\ UNCHANGED <<fm, fsFile>>
    /\ UNCHANGED <<crawlVars, fnVars, wfVars>>

-----------------------------------------------------------------------------
(* FileManager._perform_download *)

ALLOWED_CONTENT_TYPES == {"application/pdf", "application/x-pdf"}

ContentTypes == {"", "application/pdf", "application/octet-stream", "text/html"}

_validate_content_type(content_type, url) ==
    IF content_type = "" THEN _has_pdf_extension(url)
    ELSE IF content_type \in ALLOWED_CONTENT_TYPES THEN TRUE
    ELSE IF content_type = "application/octet-stream" THEN _has_pdf_extension(url)
    ELSE FALSE

\* where a redirect may end: a safe URL without .pdf, a private address, a
\* private address whose text holds a network indicator word
RedirectTargets ==
    {DUrl("http", "example.com", FALSE, FALSE, FALSE),
     DUrl("http", "10.0.0.1", TRUE, FALSE, FALSE),
     DUrl("http", "10.0.0.1", TRUE, FALSE, TRUE)}

\* the Content-Length header: absent, the ceiling, above the ceiling
DeclaredLengths == {None, Some(MaxFileSize), Some(MaxFileSize + 1)}

\* the head of what the server answers to session.get(url, stream=True): the
\* URL after redirects and the headers
Responses(url) ==
    [final_url : {url} \cup RedirectTargets,
     content_type : ContentTypes,
     content_length : DeclaredLengths]

\* the body, read only by iter_content: its number of chunks, how it starts
Bodies ==
    [chunks : 0..(MaxFileSize + 1),
     sig : {"pdf", "html"}]

\* the response passes the checks of the final URL and of the content type
\* and declares a Content-Length above the ceiling
OversizeDeclared(url, r) ==
    /\ r.final_url = url \/ _is_safe_url(r.final_url)[1]
    /\ _validate_content_type(r.content_type, r.final_url)
    /\ r.content_length # None
    /\ r.content_length[1] > fm.max_file_size_bytes

\* a _perform_download without the Content-Length test
ResponseError_NoLengthCheck(url, r) ==
    IF r.final_url # url /\ ~_is_safe_url(r.final_url)[1]
    THEN "Redirect to unsafe URL"
    ELSE IF ~_validate_content_type(r.content_type, r.final_url)
    THEN "Invalid content type"
    ELSE ""

\* the checks between session.get and open(): the message of the ValueError
\* raised, or "" when the response passes
ResponseError(url, r) ==
    IF r.final_url # url /\ ~_is_safe_url(r.final_url)[1]
    THEN "Redirect to unsafe URL"
    ELSE IF ~_validate_content_type(r.content_type, r.final_url)
    THEN "Invalid content type"
    ELSE IF r.content_length # None /\ r.content_length[1] > fm.max_file_size_bytes
    THEN "File too large"
    ELSE ""

\* open(target_path, 'wb'): truncates the file at the path or creates one
OpenForWrite(file) ==
    IF file.exists THEN File(TRUE, 0, FALSE, file.gen)
    ELSE File(TRUE, 0, FALSE, file.gen + 1)

PerformDownload(t) ==
    /\ th[t].pc = "attempt"
    /\ LET called == [th[t] EXCEPT !.gets = @ + 1, !.oversize_declared = FALSE]
           got == [th EXCEPT ![t] = called]
       IN
       \/ \* session.get or raise_for_status raises a RequestException
          /\ th' = [got EXCEPT ![t] =
                      Raise(called, "ConnectionError", "Network error downloading",
                            TRUE)]
          /\ UNCHANGED fsFile
       \/ \E r \in Responses(called.url) :
             LET me == [called EXCEPT
                           !.oversize_declared = OversizeDeclared(called.url, r)]
                 err == ResponseError(me.url, r)
             IN
             IF err # ""
             THEN /\ th' = [got EXCEPT ![t] =
                              Raise([me EXCEPT !.met = @ \cup {err}],
                                    "RuntimeError", err,
                                    HasNetworkIndicator(me.url)
                                        \/ (err = "Redirect to unsafe URL"
                                               /\ HasNetworkIndicator(r.final_url)))]
                  /\ UNCHANGED fsFile
             ELSE IF fsFile.exists /\ ~fsFile.is_file
             THEN \* the path is a directory: open raises IsADirectoryError
                  /\ th' = [got EXCEPT ![t] =
                              Raise(me, "OSError", "File system error saving",
                                    HasNetworkIndicator(me.url))]
                  /\ UNCHANGED fsFile
             ELSE \E body \in Bodies :
                     /\ fsFile' = OpenForWrite(fsFile)
                     /\ th' = [got EXCEPT ![t] =
                                 [me EXCEPT !.pc = "stream", !.handle = fsFile'.gen,
                                            !.total_size = 0, !.left = body.chunks,
                                            !.sig = body.sig]]
    /\ UNCHANGED <<fm, fsDir>>
    /\ UNCHANGED <<crawlVars, fnVars, wfVars>>

\* f.write(chunk) through a handle: it reaches the file at the path only
\* while that file is the one the handle opened
WriteChunk(file, handle, sig) ==
    IF file.exists /\ file.gen = handle
    THEN [file EXCEPT !.bytes = @ + 1,
                      !.pdf = IF file.bytes = 0 THEN sig = "pdf" ELSE @]
    ELSE file

\* one iteration of the iter_content loop
StreamChunk(t) ==
    /\ th[t].pc = "stream"
    /\ th[t].left > 0
    /\ LET me == [th[t] EXCEPT !.left = @ - 1, !.total_size = @ + 1]
           written == WriteChunk(fsFile, me.handle, me.sig)
       IN
       IF me.total_size > fm.max_file_size_bytes
       THEN /\ fsFile' = Unlink(written)
            /\ th' = [th EXCEPT ![t] =
                        Raise([me EXCEPT !.met = @ \cup
                                  {"File exceeded size limit during download"}],
                              "RuntimeError",
                              "File exceeded size limit during download",
                              HasNetworkIndicator(me.url))]
       ELSE /\ fsFile' = written
            /\ th' = [th EXCEPT ![t] = me]
    /\ UNCHANGED <<fm, fsDir>>
    /\ UNCHANGED <<crawlVars, fnVars, wfVars>>

\* iter_content raises a RequestException, or f.write raises an OSError
StreamFails(t) ==
    /\ th[t].pc = "stream"
    /\ LET me == th[t] IN
       \/ th' = [th EXCEPT ![t] =
                   Raise(me, "ConnectionError", "Network error downloading", TRUE)]
       \/ th' = [th EXCEPT ![t] =
                   Raise(me, "OSError", "File system error saving",
                         HasNetworkIndicator(me.url))]
    /\ UNCHANGED <<fm, fsFile, fsDir>>
    /\ UNCHANGED <<crawlVars, fnVars, wfVars>>

\* a signature check that accepts whatever file is there
_validate_pdf_content_AnyFile(file) == file.exists /\ file.is_file

\* open(file_path, 'rb') and header.startswith(b'%PDF-')
_validate_pdf_content(file) == file.exists /\ file.is_file /\ file.bytes > 0 /\ file.pdf

\* the body is complete: _perform_download returns, execute_with_retry
\* returns success and download_file checks the signature
StreamEnds(t) ==
    /\ th[t].pc = "stream"
    /\ th[t].left = 0
    /\ IF _validate_pdf_content(fsFile)
       THEN /\ th' = [th EXCEPT ![t] =
                        Returned([th[t] EXCEPT !.fetched = TRUE], TRUE, "None")]
            /\ UNCHANGED fsFile
       ELSE /\ fsFile' = Unlink(fsFile)
            /\ th' = [th EXCEPT ![t] =
                        Returned([th[t] EXCEPT !.fetched = TRUE,
                                     !.met = @ \cup {"Downloaded file is not a valid PDF"}],
                                 FALSE, "Downloaded file is not a valid PDF")]
    /\ UNCHANGED <<fm, fsDir>>
    /\ UNCHANGED <<crawlVars, fnVars, wfVars>>

-----------------------------------------------------------------------------
(* WorkflowExecutor.process_archives_by_category and the processors'       *)
(* process_archive (scripts/category_processor.py)                         *)

\* CategoryProcessorFactory.create_processor knows these; any other category
\* raises ValueError
SupportedCategories == {"old-newspaper", "newspaper"}

Categories == SupportedCategories \cup {"magazine"}

\* old newspapers are static archives, newspapers are active publications
should_process_in_scheduled_run(category) == category = "newspaper"

\* an executor whose inner handler catches ValueError only
ArchiveHandler_ValueErrorOnly(exc) == exc = "ValueError"

\* the 'except Exception' around process_archive and track_download_result
ArchiveHandler(exc) == TRUE

\* the 'except ValueError' around a whole category
CategoryHandler(exc) == exc = "ValueError"

\* a processor for which an archive without failure is a success
ArchiveSuccess_NoFailure(files_downloaded, files_failed) == files_failed = 0

\* success = files_downloaded > 0 and files_failed == 0
ArchiveSuccess(files_downloaded, files_failed) ==
    files_downloaded > 0 /\ files_failed = 0

IdleExecutor ==
    [pc |-> "idle", c |-> 0, a |-> 0, urls |-> 0, u |-> 0, files_downloaded |-> 0,
     files_failed |-> 0, urlsLeft |-> 0]

\* an exception leaves process_archive: the executor's handlers
RaiseInArchive(me, exc) ==
    IF ArchiveHandler(exc)
    THEN /\ processing_results' =
               Append(processing_results,
                      [c |-> me.c, a |-> me.a, success |-> FALSE,
                       files_downloaded |-> 0, files_failed |-> 1,
                       raised |-> TRUE, urls |-> me.urls])
         /\ wf' = [me EXCEPT !.pc = "archive"]
    ELSE IF CategoryHandler(exc)
    THEN /\ wf' = [me EXCEPT !.pc = "category"]
         /\ UNCHANGED processing_results
    ELSE /\ wf' = [me EXCEPT !.pc = "raised"]
         /\ UNCHANGED processing_results

\* for category, archive_list in archives.items(): skip an empty list, make
\* the processor
NextCategory ==
    /\ wf.pc = "category"
    /\ IF wf.c = Len(batch.archives)
       THEN wf' = [wf EXCEPT !.pc = "done"]
       ELSE LET entry == batch.archives[wf.c + 1]
                me == [wf EXCEPT !.c = @ + 1, !.a = 0]
            IN
            IF entry.archive_list = 0
            THEN wf' = me
            ELSE IF entry.category \notin SupportedCategories
            THEN \* create_processor raises ValueError
                 IF CategoryHandler("ValueError")
                 THEN wf' = me
                 ELSE wf' = [me EXCEPT !.pc = "raised"]
            ELSE wf' = [me EXCEPT !.pc = "archive"]
    /\ UNCHANGED <<batch, processing_results>>
    /\ UNCHANGED <<crawlVars, dlVars, fnVars>>

\* for archive in archive_list: the scheduled-run test, then process_archive
\* up to its URL loop
NextArchive ==
    /\ wf.pc = "archive"
    /\ LET entry == batch.archives[wf.c] IN
       IF wf.a = entry.archive_list
       THEN /\ wf' = [wf EXCEPT !.pc = "category"]
            /\ UNCHANGED processing_results
       ELSE IF batch.is_scheduled_run /\ ~should_process_in_scheduled_run(entry.category)
       THEN /\ wf' = [wf EXCEPT !.a = @ + 1]
            /\ UNCHANGED processing_results
       ELSE \E urls \in 0..wf.urlsLeft :
               LET me == [wf EXCEPT !.a = @ + 1, !.urls = urls, !.u = 0,
                                    !.files_downloaded = 0, !.files_failed = 0,
                                    !.urlsLeft = @ - urls]
               IN
               IF urls = 0
               THEN \* return False, 0, 0, [error_msg]
                    /\ processing_results' =
                          Append(processing_results,
                                 [c |-> me.c, a |-> me.a, success |-> FALSE,
                                  files_downloaded |-> 0, files_failed |-> 0,
                                  raised |-> FALSE, urls |-> 0])
                    /\ wf' = me
               ELSE \* create_directory_structure: os.makedirs may raise
                    \/ \E exc \in {"OSError", "ValueError"} : RaiseInArchive(me, exc)
                    \/ /\ wf' = [me EXCEPT !.pc = "url"]
                       /\ UNCHANGED processing_results
    /\ UNCHANGED batch
    /\ UNCHANGED <<crawlVars, dlVars, fnVars>>

\* one iteration of 'for i, url in enumerate(urls, 1)': the file is there
\* already, download_file returns success or failure, or something raises
ProcessUrl ==
    /\ wf.pc = "url"
    /\ wf.u < wf.urls
    /\ \E outcome \in {"exists", "downloaded", "failed", "raised"} :
          wf' = [wf EXCEPT
                    !.u = @ + 1,
                    !.files_downloaded = IF outcome = "downloaded" THEN @ + 1 ELSE @,
                    !.files_failed = IF outcome \in {"failed", "raised"} THEN @ + 1 ELSE @]
    /\ UNCHANGED <<batch, processing_results>>
    /\ UNCHANGED <<crawlVars, dlVars, fnVars>>

\* after the loop: the newspaper's year bookkeeping (it may raise), the README
\* (its failure is caught), the verdict, and the executor tracks the result
FinishArchive ==
    /\ wf.pc = "url"
    /\ wf.u = wf.urls
    /\ \/ /\ batch.archives[wf.c].category = "newspaper"
          /\ RaiseInArchive(wf, "TypeError")
       \/ /\ processing_results' =
                Append(processing_results,
                       [c |-> wf.c, a |-> wf.a,
                        success |-> ArchiveSuccess(wf.files_downloaded, wf.files_failed),
                        files_downloaded |-> wf.files_downloaded,
                        files_failed |-> wf.files_failed,
                        raised |-> FALSE, urls |-> wf.urls])
          /\ wf' = [wf EXCEPT !.pc = "archive"]
    /\ UNCHANGED batch
    /\ UNCHANGED <<crawlVars, dlVars, fnVars>>

-----------------------------------------------------------------------------
(* The specifications *)

CrawlerIdle ==
    /\ config = [max_depth |-> MaxDepth,
                 max_files_per_directory |-> MaxPerDir,
                 max_total_files |-> MaxTotalFiles,
                 blocked_patterns |-> blocked_patterns]
    /\ visited_urls = {}
    /\ discovered_files = <<>>
    /\ discovered_directories = <<>>
    /\ errors = <<>>
    /\ stack = <<>>
    /\ cpc = "idle"
    /\ call = [base_url |-> Url("s", "/"), crawl_depth |-> 0, links |-> 0]
    /\ results = <<>>
    /\ getLog = <<>>
    /\ linksLeft = 0

NoCheck ==
    /\ probe = GoodUrl
    /\ verdict = None

WorkflowIdle ==
    /\ batch = [archives |-> <<>>, is_scheduled_run |-> FALSE]
    /\ wf = IdleExecutor
    /\ processing_results = <<>>

DownloadIdle ==
    /\ fm = [max_retries |-> 0, max_file_size_bytes |-> MaxFileSize]
    /\ fsFile = NoFile
    /\ fsDir = FALSE
    /\ th = [t \in Threads |-> IdleThread]

CrawlInit ==
    /\ config \in [max_depth : {0, MaxDepth},
                   max_files_per_directory : {1, MaxPerDir},
                   max_total_files : {1, MaxTotalFiles},
                   blocked_patterns : {blocked_patterns}]
    /\ visited_urls = {}
    /\ discovered_files = <<>>
    /\ discovered_directories = <<>>
    /\ errors = <<>>
    /\ stack = <<>>
    /\ cpc = "idle"
    /\ call = [base_url |-> Url("s", "/"), crawl_depth |-> 0, links |-> 0]
    /\ results = <<>>
    /\ getLog = <<>>
    /\ linksLeft = 0
    /\ DownloadIdle
    /\ NoCheck
    /\ WorkflowIdle

CrawlStep ==
    \/ CrawlRecursiveEnter
    \/ Fetch
    \/ \E link \in HtmlLinks : HtmlLink(link)
    \/ \E item \in JsonItems : JsonItem(item)
    \/ ListingReturn
    \/ CrawlDirectoryReturn

CrawlNext ==
    \/ \E base_url \in SeedUrls, max_depth \in {None, Some(0), Some(1)} :
           /\ results = <<>>
           /\ CrawlDirectory(base_url, max_depth, MaxLinks)
    \/ CrawlStep

CrawlSpec == CrawlInit /\ [][CrawlNext]_vars

\* one crawler instance used for several crawls in sequence; the servers
\* list ReuseLinks links over all of them
ReuseNext ==
    \/ \E base_url \in {Url("s", "/")} :
           /\ Len(results) < MaxCrawls
           /\ CrawlDirectory(base_url, None,
                             IF results = <<>> THEN ReuseLinks ELSE linksLeft)
    \/ CrawlStep

\* the instance is built with the largest limits of the model
ReuseInit ==
    /\ CrawlInit
    /\ config = [max_depth |-> MaxDepth,
                 max_files_per_directory |-> MaxPerDir,
                 max_total_files |-> MaxTotalFiles,
                 blocked_patterns |-> blocked_patterns]

ReuseSpec == ReuseInit /\ [][ReuseNext]_vars

FairNext ==
    \/ \E base_url \in SeedUrls, max_depth \in {None, Some(0), Some(1)} :
           /\ results = <<>>
           /\ CrawlDirectory(base_url, max_depth, FairLinks)
    \/ CrawlStep

\* crawl_directory is one sequential call: once started it keeps taking steps
CrawlFairSpec == CrawlInit /\ [][FairNext]_vars /\ WF_vars(CrawlStep)

\* crawlers configured with their own blocked substrings: the default set, a
\* substring written with a capital, the name of a file, the name of a
\* directory with the name of a file, none at all
BlockedSets == {blocked_patterns, {"Admin"}, {"f"}, {"admin", "f"}, {}}

BlockInit ==
    /\ config \in [max_depth : {MaxDepth},
                   max_files_per_directory : {MaxPerDir},
                   max_total_files : {MaxTotalFiles},
                   blocked_patterns : BlockedSets]
    /\ visited_urls = {}
    /\ discovered_files = <<>>
    /\ discovered_directories = <<>>
    /\ errors = <<>>
    /\ stack = <<>>
    /\ cpc = "idle"
    /\ call = [base_url |-> Url("s", "/"), crawl_depth |-> 0, links |-> 0]
    /\ results = <<>>
    /\ getLog = <<>>
    /\ linksLeft = 0
    /\ DownloadIdle
    /\ NoCheck
    /\ WorkflowIdle

BlockNext ==
    \/ \E base_url \in SeedUrls \cup {Url("Admin", "/")} :
           /\ results = <<>>
           /\ CrawlDirectory(base_url, None, BlockLinks)
    \/ CrawlStep

BlockSpec == BlockInit /\ [][BlockNext]_vars

\* the end-to-end scenario: the seed is an HTML listing with the links 1.pdf,
\* 1378/, ../ and #anchor
ScenarioListing ==
    <<[href |-> "rel", url |-> Url("1", ".pdf"), text_dir |-> FALSE],
      [href |-> "rel", url |-> Url("1378", "/"), text_dir |-> FALSE],
      [href |-> "../", url |-> Url("up", "/"), text_dir |-> FALSE],
      [href |-> "#", url |-> Url("s", "/"), text_dir |-> FALSE]>>

\* the server has no other file: whatever <base>/1378/ answers, it lists
\* links and items that are not files
OtherLinks == {link \in HtmlLinks : ~_is_downloadable_file(link.url)}

OtherItems ==
    {item \in JsonItems : ~_is_downloadable_file(item.url) /\ item.type # "file"}

ScenarioInit == ReuseInit

ScenarioNext ==
    \/ /\ results = <<>>
       /\ CrawlDirectory(Url("s", "/"), Some(2), Len(ScenarioListing) + ScenarioLinks)
    \/ CrawlRecursiveEnter
    \/ /\ Fetch
       /\ Top.url = Url("s", "/") =>
             /\ Len(stack') = Len(stack)
             /\ stack'[1].phase = "html"
             /\ stack'[1].n = Len(ScenarioListing)
    \/ \E link \in OtherLinks \cup {ScenarioListing[k] : k \in DOMAIN ScenarioListing} :
           /\ stack # <<>>
           /\ IF Top.url = Url("s", "/")
              THEN Top.i < Len(ScenarioListing) /\ link = ScenarioListing[Top.i + 1]
              ELSE link \in OtherLinks
           /\ HtmlLink(link)
    \/ \E item \in OtherItems : JsonItem(item)
    \/ ListingReturn
    \/ CrawlDirectoryReturn

ScenarioSpec == ScenarioInit /\ [][ScenarioNext]_vars

\* target_path before the call: nothing, a PDF, some other file, a directory,
\* a path that cannot be examined
InitialFiles ==
    {NoFile, File(TRUE, 1, TRUE, 0), File(TRUE, 1, FALSE, 0), File(FALSE, 0, FALSE, 0),
     BadPath}

DownloadInit ==
    /\ CrawlerIdle
    /\ NoCheck
    /\ WorkflowIdle
    /\ fm \in [max_retries : {0, MaxRetries}, max_file_size_bytes : {MaxFileSize}]
    /\ fsFile \in InitialFiles
    /\ fsDir \in BOOLEAN
    /\ fsFile.exists => fsDir
    /\ th = [t \in Threads |-> IdleThread]

DownloadNext ==
    \E t \in Threads :
       \/ \E url \in DownloadUrls : DownloadFile(t, url)
       \/ PerformDownload(t)
       \/ StreamChunk(t)
       \/ StreamFails(t)
       \/ StreamEnds(t)

DownloadSpec == DownloadInit /\ [][DownloadNext]_vars

\* several threads call download_file on one FileManager for one target_path
\* that does not exist yet
Callers == {1, 2}

ConcurrentInit ==
    /\ CrawlerIdle
    /\ NoCheck
    /\ WorkflowIdle
    /\ fm \in [max_retries : {0, MaxRetries}, max_file_size_bytes : {MaxFileSize}]
    /\ fsFile = NoFile
    /\ fsDir \in BOOLEAN
    /\ th = [t \in Callers |-> IdleThread]

\* an attempt that the server answers with a valid PDF within the size limit
ValidPdfDownload(t) ==
    /\ PerformDownload(t)
    /\ th'[t].pc = "stream"
    /\ th'[t].sig = "pdf"
    /\ th'[t].left \in 1..fm.max_file_size_bytes

\* every response is complete and valid: no attempt fails on the network
ConcurrentNext ==
    \E t \in Callers :
       \/ DownloadFile(t, GoodUrl)
       \/ ValidPdfDownload(t)
       \/ StreamChunk(t)
       \/ StreamEnds(t)

ConcurrentSpec == ConcurrentInit /\ [][ConcurrentNext]_vars

-----------------------------------------------------------------------------
(* The security check as a function of the URL *)

Schemes == {"http", "https", "HTTPS", "ftp", "javascript", "file", ""}

Hosts ==
    {"example.com", "", ":80", "LocalHost", "localhost", "127.0.0.1", "0.0.0.0",
     "[::1]", "[fe80::1]", "10.0.0.1", "192.168.1.1", "169.254.1.1", "224.0.0.1",
     "8.8.8.8"}

\* pieces of a path or a query string; "\t" stands for the control characters
UrlPieces ==
    {"doc", ".pdf", ".PDF", "network", "JavaScript:", "javascript:", "data:",
     "vbscript:", "file:", "ftp:", "<script", "onclick", "onload", "onerror",
     "../", "%2E%2E%2F", "%2e%2e%2f", "..%2f", "%2e%2e/", "@", "<", ">", "\"", "'",
     "\t"}

\* the sequences over a set of pieces, up to a length
SeqsUpTo(pieces, length) ==
    UNION {[1..n -> pieces] : n \in 0..length}

SecurityProbes ==
    {UrlText(scheme, host, path, <<>>) :
        scheme \in Schemes, host \in Hosts, path \in SeqsUpTo(UrlPieces, MaxUrlPieces)}

SecurityInit ==
    /\ CrawlerIdle
    /\ DownloadIdle
    /\ WorkflowIdle
    /\ probe \in SecurityProbes
    /\ verdict = None

\* a call of _is_safe_url(url); it may be made again on the same URL
CheckUrl ==
    /\ verdict' = Some(_is_safe_url(probe))
    /\ UNCHANGED <<crawlVars, dlVars, wfVars, probe>>

SecurityNext == CheckUrl

SecuritySpec == SecurityInit /\ [][SecurityNext]_vars

-----------------------------------------------------------------------------
(* process_archives_by_category over every small batch *)

\* the archives argument: categories in the order of the dict, each with the
\* length of its archive list
ArchiveDicts ==
    {archives \in SeqsUpTo([category : Categories, archive_list : 0..MaxArchives],
                           MaxCategories) :
        \A i, j \in DOMAIN archives :
            i # j => archives[i].category # archives[j].category}

BatchInit ==
    /\ CrawlerIdle
    /\ DownloadIdle
    /\ NoCheck
    /\ batch \in [archives : ArchiveDicts, is_scheduled_run : BOOLEAN]
    /\ wf = [IdleExecutor EXCEPT !.pc = "category", !.urlsLeft = MaxBatchUrls]
    /\ processing_results = <<>>

BatchNext ==
    \/ NextCategory
    \/ NextArchive
    \/ ProcessUrl
    \/ FinishArchive

BatchSpec == BatchInit /\ [][BatchNext]_vars

-----------------------------------------------------------------------------
(* URLPatternDetector.analyze_url *)

\* self.file_patterns: \.pdf$, \.docx?$, \.txt$, \.html?$, \.rtf$, \.odt$
detector_file_patterns ==
    {".pdf", ".doc", ".docx", ".txt", ".htm", ".html", ".rtf", ".odt"}

\* pieces of a path: segments, the closing slash, extensions
DetectorPieces ==
    {"/docs", "/archive", "/files", "/neshat-1377", "/1377", "/9999", "/vol-0000",
     "/march", "/",
     ".pdf", ".PDF", ".doc", ".Docx", ".txt", ".htm", ".html", ".rtf", ".odt",
     ".zip", ".backup"}

\* the query strings of the model: none, one that ends in a word, one that
\* ends in a document extension
DetectorQueries == {<<>>, <<"?download=1">>, <<"?file=report", ".pdf">>}

\* parsed.path.lower()
PathLower(url) == [i \in 1..Len(url.path) |-> PieceLower(url.path[i])]

LastOf(path) == IF path = <<>> THEN "" ELSE path[Len(path)]

\* re.search of a file pattern in the path
MatchesFilePattern(path) == LastOf(path) \in detector_file_patterns

\* self.directory_patterns: /$ (the index and default pages end in .htm or
\* .html and are file patterns first)
MatchesDirectoryPattern(path) == LastOf(path) = "/"

\* self.archive_patterns, each anchored at the end with an optional slash
ArchiveSegments == {"/neshat-1377", "/1377", "/9999", "/vol-0000", "/archive", "/files"}

MatchesArchivePattern(path) ==
    \/ LastOf(path) \in ArchiveSegments
    \/ /\ Len(path) >= 2
       /\ LastOf(path) = "/"
       /\ path[Len(path) - 1] \in ArchiveSegments

\* re.findall of self.year_patterns anywhere in the path
YearMatches(path) ==
    {i \in 1..Len(path) : path[i] \in {"/neshat-1377", "/1377"}}

\* re.findall of self.month_patterns anywhere in the path: a month name or its
\* three letters, or a digit 1-9
MonthMatches(path) ==
    {i \in 1..Len(path) : path[i] \in {"/march", "/neshat-1377", "/1377", "/9999"}}

\* re.search(r'\.[a-zA-Z0-9]{2,4}$', path)
EndsWithExtension(path) ==
    LastOf(path) \in detector_file_patterns \cup {".zip"}

\* what _analyze_content returns: None when the request fails
ContentAnalyses ==
    {None,
     Some([type |-> "UNKNOWN", confidence |-> 0]),
     Some([type |-> "DIRECTORY_LISTING", confidence |-> 95]),
     Some([type |-> "ARCHIVE_ROOT", confidence |-> 80]),
     Some([type |-> "DIRECT_FILE", confidence |-> 100])}

URLAnalysis(url_type, confidence, suggested_crawl_depth) ==
    [url_type |-> url_type, confidence |-> confidence,
     suggested_crawl_depth |-> suggested_crawl_depth]

Max(a, b) == IF a >= b THEN a ELSE b

\* confidences are in hundredths
analyze_url(url, check_content, content_analysis) ==
    LET path == PathLower(url)
        start == URLAnalysis("UNKNOWN", 0, 3)
        file == IF MatchesFilePattern(path) THEN URLAnalysis("DIRECT_FILE", 90, 0)
                ELSE start
        directory == IF MatchesDirectoryPattern(path)
                     THEN URLAnalysis("DIRECTORY_LISTING", 70, 2) ELSE file
        archive == IF MatchesArchivePattern(path)
                   THEN URLAnalysis("ARCHIVE_ROOT", 80, 4) ELSE directory
        year == IF YearMatches(path) # {}
                THEN URLAnalysis("YEAR_DIRECTORY", 60, 2) ELSE archive
        month == IF MonthMatches(path) # {} /\ year.url_type = "UNKNOWN"
                 THEN URLAnalysis("MONTH_DIRECTORY", 50, 1) ELSE year
        by_path == IF file.url_type = "UNKNOWN" THEN month ELSE file
        by_content ==
            IF /\ check_content
               /\ by_path.url_type \in {"UNKNOWN", "DIRECTORY_LISTING"}
               /\ content_analysis # None
               /\ content_analysis[1].type # "UNKNOWN"
            THEN URLAnalysis(content_analysis[1].type,
                             Max(by_path.confidence, content_analysis[1].confidence),
                             by_path.suggested_crawl_depth)
            ELSE by_path
    IN IF by_content.url_type = "UNKNOWN" /\ ~EndsWithExtension(path)
       THEN URLAnalysis("DIRECTORY_LISTING", 30, 2)
       ELSE by_content

\* a path is empty or begins with a segment
DetectorPaths ==
    {path \in SeqsUpTo(DetectorPieces, MaxPathLen) :
        path = <<>> \/ path[1] \in ArchiveSegments \cup {"/docs", "/march", "/"}}

DetectorProbes ==
    {[url |-> UrlText("https", "example.com", path, query),
      check_content |-> check_content,
      content_analysis |-> content_analysis] :
        path \in DetectorPaths,
        query \in DetectorQueries,
        check_content \in BOOLEAN,
        content_analysis \in ContentAnalyses}

DetectorInit ==
    /\ CrawlerIdle
    /\ DownloadIdle
    /\ WorkflowIdle
    /\ probe \in {p \in DetectorProbes : p.check_content \/ p.content_analysis = None}
    /\ verdict = None

AnalyzeUrl ==
    /\ verdict' = Some(analyze_url(probe.url, probe.check_content,
                                   probe.content_analysis))
    /\ UNCHANGED <<crawlVars, dlVars, wfVars, probe>>

DetectorNext == AnalyzeUrl

DetectorSpec == DetectorInit /\ [][DetectorNext]_vars

-----------------------------------------------------------------------------
(* C1: every returned CrawlResult has len(discovered_files) <=             *)
(* max_total_files and total_files <= max_total_files.                     *)
C1_TotalFilesWithinLimit ==
    \A k \in DOMAIN results :
        /\ results[k].total_files <= config.max_total_files
        /\ Len(ReadList(results[k].discovered_files, discovered_files))
               <= config.max_total_files

(* C2: discovered_files never holds the same URL twice.                    *)
C2_NoDuplicateFiles ==
    \A i, j \in DOMAIN discovered_files :
        i # j => discovered_files[i] # discovered_files[j]

(* C3: within one crawl a GET is issued at most once per URL, and a URL is *)
(* in visited_urls before it is fetched.                                   *)
C3_FetchedAtMostOnce ==
    /\ \A i, j \in DOMAIN getLog : i # j => getLog[i].url # getLog[j].url
    /\ \A i \in DOMAIN getLog : getLog[i].url \in visited_urls
    /\ \A k \in DOMAIN stack :
           stack[k].phase = "fetch" => stack[k].url \in visited_urls

\* a directory whose fetch failed is listed a second time and the crawl has
\* returned
C3_Witness ==
    /\ cpc = "idle"
    /\ \E i, j \in DOMAIN discovered_directories :
           /\ i < j
           /\ discovered_directories[i] = discovered_directories[j]
           /\ \E e \in DOMAIN errors :
                  /\ errors[e].url = discovered_directories[i]
                  /\ errors[e].kind = "Failed to crawl"

(* C4: with effective depth limit D no URL is fetched at depth >= D; the   *)
(* seed is fetched at depth 0 and a frame's depth is the number of         *)
(* directory-follow hops that led to it.                                   *)
C4_FetchDepthBelowLimit ==
    /\ \A i \in DOMAIN getLog : getLog[i].depth < call.crawl_depth
    /\ getLog # <<>> => getLog[1] = [url |-> call.base_url, depth |-> 0]
    /\ \A k \in DOMAIN stack : stack[k].depth = Len(stack) - k

\* a crawl with limit 2 fetched a URL at depth 1 and refused, for its depth
\* alone, a directory listed there
C4_Witness ==
    /\ cpc = "idle"
    /\ results # <<>>
    /\ call.crawl_depth = 2
    /\ \E i \in DOMAIN getLog : getLog[i].depth = 1
    /\ Len(discovered_files) < config.max_total_files
    /\ \E k \in DOMAIN discovered_directories :
           /\ discovered_directories[k] \notin visited_urls
           /\ ~_is_blocked_url(discovered_directories[k])

(* C5: crawl_directory eventually returns, whatever the pages link to (a   *)
(* page linking to itself, to its parent, two directories linking to each  *)
(* other): every step of a running crawl lowers a natural-number rank      *)
(* built from the depth limit, and under fair scheduling a running crawl   *)
(* reaches its return.                                                     *)
RECURSIVE SumRank(_)
FrameRank(frame) ==
    LET left == IF call.crawl_depth > frame.depth
                THEN call.crawl_depth - frame.depth ELSE 0
        steps == IF frame.phase = "enter" THEN call.links + 3
                 ELSE IF frame.phase = "fetch" THEN call.links + 2
                 ELSE (frame.n - frame.i) + 1
    IN  steps * ((call.links + 4) ^ left)

SumRank(frames) ==
    IF frames = <<>> THEN 0 ELSE FrameRank(Head(frames)) + SumRank(Tail(frames))

CrawlRank == (IF cpc = "running" THEN 1 ELSE 0) + SumRank(stack)

C5_CrawlTerminates ==
    /\ [][cpc = "running" => (CrawlRank' < CrawlRank /\ CrawlRank' >= 0)]_vars
    /\ (cpc = "running") ~> (cpc = "idle")

\* a crawl has returned although a page listed the seed again (a link to
\* itself or back to its parent) below a fetched subdirectory
C5_Witness ==
    /\ cpc = "idle"
    /\ results # <<>>
    /\ Len(getLog) >= 2
    /\ InSeq(call.base_url, discovered_directories)
    /\ \E k \in DOMAIN discovered_directories :
           /\ discovered_directories[k] # call.base_url
           /\ discovered_directories[k] \in visited_urls

(* C6: a failed fetch appends one message for the failing URL to errors    *)
(* and ends only that activation of _crawl_recursive: no step removes or   *)
(* changes a caller's frame, so the links that follow the failing link in  *)
(* the parent listing are still to be processed, and a listing is left     *)
(* only at its end, at the per-directory break or on its own parse error.  *)
C6_FailureStopsOnlyItsBranch ==
    [][/\ (stack # <<>> /\ Top.phase = "fetch" /\ errors' # errors) =>
             /\ Len(errors') = Len(errors) + 1
             /\ SubSeq(errors', 1, Len(errors)) = errors
             /\ errors'[Len(errors')].url = Top.url
             /\ stack' = Tail(stack)
       /\ \A k \in 2..Len(stack) :
             /\ Len(stack') >= Len(stack) - k + 1
             /\ stack'[Len(stack') - Len(stack) + k] = stack[k]
       /\ (stack # <<>> /\ Top.phase \in {"html", "json"} /\ Len(stack') < Len(stack)) =>
             \/ Top.i >= Top.n
             \/ Top.files_in_directory >= config.max_files_per_directory
             \/ errors' # errors
      ]_vars

\* the crawl returned; the second GET, of a subdirectory, failed, and the
\* third GET is of a sibling listed after it in the same parent listing
C6_Witness ==
    /\ cpc = "idle"
    /\ results # <<>>
    /\ Len(getLog) >= 3
    /\ getLog[2].depth = 1
    /\ getLog[3].depth = 1
    /\ \E e \in DOMAIN errors : errors[e].url = getLog[2].url

(* C7: each crawl_directory call starts from an empty visited set and      *)
(* empty file, directory and error lists, so what a crawl holds was found  *)
(* by that crawl; and what a caller reads in a CrawlResult it was handed   *)
(* never changes afterwards, whatever later crawls do.                     *)
ResultView(result) ==
    [base_url |-> result.base_url,
     discovered_files |-> ReadList(result.discovered_files, discovered_files),
     discovered_directories |->
         ReadList(result.discovered_directories, discovered_directories),
     total_files |-> result.total_files,
     crawl_depth |-> result.crawl_depth,
     errors |-> ReadList(result.errors, errors)]

FoundByThisCrawl ==
    /\ visited_urls \subseteq
           {getLog[i].url : i \in DOMAIN getLog}
               \cup {stack[k].url : k \in {j \in DOMAIN stack : stack[j].phase = "fetch"}}
    /\ \A e \in DOMAIN errors : errors[e].url \in visited_urls
    /\ Len(discovered_files) + Len(discovered_directories)
           <= (call.links - linksLeft) + 1

C7_ReuseIsSafe ==
    /\ []FoundByThisCrawl
    /\ [][/\ (cpc = "idle" /\ cpc' = "running") =>
                /\ visited_urls' = {}
                /\ discovered_files' = <<>>
                /\ discovered_directories' = <<>>
                /\ errors' = <<>>
          /\ \A k \in DOMAIN results :
                /\ k \in DOMAIN results'
                /\ ResultView(results[k])' = ResultView(results[k])
         ]_vars

\* a second crawl on the instance has returned a result that differs from the
\* first crawl's, and the first crawl had files, directories and errors
C7_Witness ==
    /\ cpc = "idle"
    /\ Len(results) = 2
    /\ ResultView(results[1]).discovered_files # <<>>
    /\ ResultView(results[1]).discovered_directories # <<>>
    /\ ResultView(results[1]).errors # <<>>
    /\ ResultView(results[2]).discovered_files # ResultView(results[1]).discovered_files
    /\ ResultView(results[2]).errors = <<>>

-----------------------------------------------------------------------------
(* C8: a download_file call that finds nothing at target_path and returns
   failure leaves nothing at target_path. *)
C8_FailureLeavesNoFile ==
    \A t \in Threads :
        (th[t].pc = "done" /\ ~th[t].ret[1] /\ ~th[t].before.exists)
            => ~fsFile.exists

-----------------------------------------------------------------------------
(* C9: when a regular file is at target_path and the URL passes the security
   check, download_file returns (True, None) in that very step: no request is
   made and the file and its directory stay as they are. *)
C9_ExistingFileShortCircuit ==
    [][\A t \in Threads :
          (/\ th[t].pc = "idle"
           /\ th'[t].pc # "idle"
           /\ th'[t].url \in SafeUrls
           /\ fsFile.exists /\ fsFile.is_file)
              => /\ th'[t].pc = "done"
                 /\ th'[t].ret = <<TRUE, "None">>
                 /\ th'[t].gets = 0
                 /\ fsFile' = fsFile
                 /\ fsDir' = fsDir]_vars

C9_Witness ==
    \E t \in Threads :
        /\ th[t].pc = "done"
        /\ th[t].url \in SafeUrls
        /\ th[t].before.exists /\ th[t].before.is_file
        /\ th[t].ret = <<TRUE, "None">>
        /\ th[t].gets = 0
        /\ fsFile = th[t].before

-----------------------------------------------------------------------------
(* C10: when the URL fails the security check, download_file returns
   (False, message) in that very step, whether or not a file is at
   target_path: no request is made and no file or directory is created. *)
C10_UnsafeUrlRejectedFirst ==
    [][\A t \in Threads :
          (/\ th[t].pc = "idle"
           /\ th'[t].pc # "idle"
           /\ th'[t].url \in UnsafeUrls)
              => /\ th'[t].pc = "done"
                 /\ ~th'[t].ret[1]
                 /\ th'[t].ret[2] # "None"
                 /\ th'[t].gets = 0
                 /\ fsFile' = fsFile
                 /\ fsDir' = fsDir]_vars

C10_Witness ==
    \E t \in Threads :
        /\ th[t].pc = "done"
        /\ th[t].url \in UnsafeUrls
        /\ th[t].before.exists /\ th[t].before.is_file
        /\ ~th[t].ret[1]
        /\ th[t].gets = 0
        /\ fsFile = th[t].before

-----------------------------------------------------------------------------
(* C11: a download_file call that met a redirect to a URL failing the security
   check returns failure, and the error it returns names the unsafe redirect. *)
C11_UnsafeRedirectIsFailure ==
    \A t \in Threads :
        (th[t].pc = "done" /\ "Redirect to unsafe URL" \in th[t].met)
            => /\ ~th[t].ret[1]
               /\ th[t].ret[2] = "Redirect to unsafe URL"

-----------------------------------------------------------------------------
(* C12: execute_with_retry calls the operation at most max_retries + 1 times
   and sleeps once between two calls, never after the last: when the k-th call
   is about to be made there were k - 1 calls and k - 1 sleeps; a call that
   succeeds after k failures ends the loop with k + 1 calls and k sleeps; an
   operation that fails with a network error to the end was called
   max_retries + 1 times with max_retries sleeps. *)
C12_RetryCounts ==
    \A t \in Threads :
        LET me == th[t] IN
        /\ me.gets <= fm.max_retries + 1
        /\ me.pc = "attempt" => (me.gets = me.attempt /\ me.sleeps = me.attempt)
        /\ (me.pc \in {"stream", "done"} /\ me.gets > 0) => me.sleeps = me.gets - 1
        /\ me.fetched => me.pc = "done"
        /\ (me.pc = "done" /\ me.ret[2] = "Network error downloading")
              => (me.gets = fm.max_retries + 1 /\ me.sleeps = fm.max_retries)

C12_Witness ==
    \E t \in Threads :
        /\ th[t].pc = "done"
        /\ th[t].fetched
        /\ th[t].ret = <<TRUE, "None">>
        /\ fm.max_retries > 0
        /\ th[t].gets = fm.max_retries + 1
        /\ th[t].sleeps = fm.max_retries

-----------------------------------------------------------------------------
(* C13: once a download_file call has met a validation failure (unsafe
   redirect, content type, declared or streamed size, PDF signature) it makes
   no further attempt: the call is over and has returned failure. *)
C13_ValidationFailureNotRetried ==
    \A t \in Threads :
        th[t].met # {} => (th[t].pc = "done" /\ ~th[t].ret[1])

-----------------------------------------------------------------------------
(* C14: when the fetch succeeded and the body written to target_path does not
   start with %PDF- (an empty body included), download_file has deleted the
   file and returned (False, invalid PDF); after a successful fetch no further
   attempt is made. *)
C14_BadSignatureDeleted ==
    \A t \in Threads :
        /\ th[t].fetched => th[t].pc = "done"
        /\ (th[t].fetched /\ (th[t].sig # "pdf" \/ th[t].total_size = 0))
              => /\ ~fsFile.exists
                 /\ th[t].ret = <<FALSE, "Downloaded file is not a valid PDF">>

C14_Witness ==
    \E t \in Threads :
        /\ th[t].pc = "done"
        /\ th[t].fetched
        /\ th[t].sig = "html"
        /\ th[t].total_size > 0
        /\ th[t].gets = 1
        /\ ~fsFile.exists
        /\ th[t].ret = <<FALSE, "Downloaded file is not a valid PDF">>

-----------------------------------------------------------------------------
(* C15: an attempt whose response passes the checks of the final URL and of
   the content type and declares a Content-Length above the ceiling ends with
   the error "File too large" without opening target_path: the file system is
   as before the request and nothing is streamed; when the call ends there it
   returns (False, too large). *)
C15_OversizeRejectedBeforeOpen ==
    [][\A t \in Threads :
          (/\ th[t].pc = "attempt"
           /\ th'[t].gets = th[t].gets + 1
           /\ th'[t].oversize_declared)
              => /\ th'[t].last_error = "File too large"
                 /\ th'[t].pc \in {"attempt", "done"}
                 /\ th'[t].handle = -1
                 /\ fsFile' = fsFile
                 /\ th'[t].pc = "done" => th'[t].ret = <<FALSE, "File too large">>]_vars

C15_Witness ==
    \E t \in Threads :
        /\ th[t].pc = "done"
        /\ th[t].oversize_declared
        /\ th[t].gets = 1
        /\ th[t].ret = <<FALSE, "File too large">>
        /\ ~fsFile.exists

-----------------------------------------------------------------------------
(* C16: once the bytes streamed by a download_file call have exceeded the
   ceiling, the call is over, it has returned failure and nothing is at
   target_path. *)
C16_StreamedOversizeIsFailure ==
    \A t \in Threads :
        "File exceeded size limit during download" \in th[t].met
            => /\ th[t].pc = "done"
               /\ ~th[t].ret[1]
               /\ ~fsFile.exists

-----------------------------------------------------------------------------
(* C17: no exception leaves download_file: a call ends only by returning
   (True, None) or (False, message) with a message that is not empty. *)
C17_NeverRaises ==
    \A t \in Threads :
        /\ th[t].pc # "raised"
        /\ th[t].pc = "done"
              => \/ th[t].ret = <<TRUE, "None">>
                 \/ ~th[t].ret[1] /\ th[t].ret[2] \notin {"", "None"}

-----------------------------------------------------------------------------
(* C18: the security check rejects every URL whose text holds javascript:,
   data:, vbscript:, file:, ftp:, <script, onclick, onload, onerror, a path
   traversal (../ or a percent-encoded form of it), @, one of < > " ', or a
   control character. *)
ListedTexts ==
    {"javascript:", "data:", "vbscript:", "file:", "ftp:", "<script", "onclick",
     "onload", "onerror", "../", "%2e%2e%2f", "..%2f", "%2e%2e/", "@", "<", ">",
     "\"", "'", "\t"}

C18_ListedTextsRejected ==
    \A text \in ListedTexts :
        (verdict # None /\ Contains(probe, text)) => ~verdict[1][1]

-----------------------------------------------------------------------------
(* C19: the security check gives one verdict per URL, however often it is
   asked; it rejects a scheme other than http and https, an empty hostname,
   the hostnames localhost, 127.0.0.1, 0.0.0.0 and ::1, and the private,
   loopback, link-local and multicast address literals; it accepts an http or
   https URL on a public host with a plain path. *)
PrivateLiterals ==
    {"10.0.0.1", "192.168.1.1", "127.0.0.1", "169.254.1.1", "224.0.0.1", "::1",
     "fe80::1"}

C19_Rejects ==
    \/ SchemeLower(probe.scheme) \notin {"http", "https"}
    \/ Hostname(probe.host) = ""
    \/ Hostname(probe.host) \in {"localhost", "127.0.0.1", "0.0.0.0", "::1"}
    \/ Hostname(probe.host) \in PrivateLiterals

C19_Plain ==
    /\ SchemeLower(probe.scheme) \in {"http", "https"}
    /\ probe.host \in {"example.com", "8.8.8.8"}
    /\ \A i \in 1..Len(Pieces(probe)) : Pieces(probe)[i] \in {"doc", ".pdf", ".PDF"}

C19_SecurityCheck ==
    /\ [](verdict # None =>
            /\ C19_Rejects => ~verdict[1][1]
            /\ C19_Plain => verdict[1] = <<TRUE, "None">>)
    /\ [][verdict # None => verdict' = verdict]_vars

C19_Witness ==
    /\ verdict = Some(<<FALSE, "Access to private IP address is not allowed">>)
    /\ probe.host = "169.254.1.1"
    /\ probe.scheme = "HTTPS"
    /\ probe.path = <<".pdf">>

-----------------------------------------------------------------------------
(* C20: for every URL that ends in .pdf, .doc, .docx, .txt, .htm, .html, .rtf
   or .odt, in any letter case, analyze_url returns the type DIRECT_FILE and
   the suggested crawl depth 0. *)
DocumentExtensions == {".pdf", ".doc", ".docx", ".txt", ".htm", ".html", ".rtf", ".odt"}

EndsInDocumentExtension(url) ==
    PieceLower(LastOf(Pieces(url))) \in DocumentExtensions

C20_DocumentUrlIsDirectFile ==
    (verdict # None /\ EndsInDocumentExtension(probe.url))
        => /\ verdict[1].url_type = "DIRECT_FILE"
           /\ verdict[1].suggested_crawl_depth = 0

-----------------------------------------------------------------------------
(* C21: with check_content false, every URL without a document extension
   whose path matches an archive-root pattern is classified ARCHIVE_ROOT with
   confidence 0.8 and suggested crawl depth 4; a year or month token matched
   later in the same pass does not replace that result. *)
C21_ArchiveRootKept ==
    (/\ verdict # None
     /\ ~probe.check_content
     /\ ~MatchesFilePattern(PathLower(probe.url))
     /\ MatchesArchivePattern(PathLower(probe.url)))
        => verdict[1] = URLAnalysis("ARCHIVE_ROOT", 80, 4)

-----------------------------------------------------------------------------
(* C22: when several threads call download_file concurrently for the same
   target_path, the file does not exist beforehand and every server response
   is a valid PDF within the size limit, at least one of the calls returns
   success, under every interleaving. *)
C22_ValidResponses ==
    \A t \in DOMAIN th :
        /\ th[t].pc = "done"
        /\ th[t].last_error = ""
        /\ th[t].ret[2] # "OSError"
        /\ th[t].gets > 0 =>
              /\ th[t].gets = 1
              /\ th[t].sig = "pdf"
              /\ th[t].total_size >= 1
              /\ th[t].total_size <= fm.max_file_size_bytes

C22_SomeCallSucceeds ==
    C22_ValidResponses => \E t \in DOMAIN th : th[t].ret[1]

-----------------------------------------------------------------------------
(* C23: a max_depth argument of crawl_directory overrides the configured
   max_depth: for every non-negative argument, 0 included, the depth limit of
   the crawl and CrawlResult.crawl_depth are the argument. *)
C23_ArgumentOverridesConfig ==
    [][\A base_url \in SeedUrls, max_depth \in 0..MaxDepth :
          CrawlDirectory(base_url, Some(max_depth), MaxLinks)
              => call'.crawl_depth = max_depth]_vars

-----------------------------------------------------------------------------
(* C24: for every configured set of blocked substrings, a URL that contains
   one of them, letter case of the URL and of the substring disregarded, is
   never fetched and never added to visited_urls. *)
C24_ContainsBlocked(url) ==
    \E pattern \in config.blocked_patterns : Lower(pattern) = Lower(url.name)

C24_BlockedNeverFetched ==
    \A url \in URLs :
        C24_ContainsBlocked(url) =>
            /\ url \notin visited_urls
            /\ \A i \in DOMAIN getLog : getLog[i].url # url

-----------------------------------------------------------------------------
(* C25: traversal is depth-first in link order and discovered_files is
   append-only: the links of a listing are handled one after the other in the
   order of the page, a listing moves on to its next link only when the whole
   subtree of the directory link before it has returned, and an entry of
   discovered_files never moves or disappears during the crawl. *)
C25_IsPrefix(old, new) ==
    /\ Len(old) <= Len(new)
    /\ \A k \in DOMAIN old : new[k] = old[k]

\* the same activation of _crawl_recursive, at the same link or at the next
C25_SameCall(old, new, links) ==
    /\ new.url = old.url
    /\ new.depth = old.depth
    /\ new.i - old.i \in links

C25_DepthFirstAppendOnly ==
    [][cpc = "running" =>
          /\ C25_IsPrefix(discovered_files, discovered_files')
          /\ Len(discovered_files') <= Len(discovered_files) + 1
          /\ stack # <<>> =>
                \/ stack' = Tail(stack)
                \/ /\ Len(stack') = Len(stack)
                   /\ Tail(stack') = Tail(stack)
                   /\ C25_SameCall(Top, stack'[1], {0, 1})
                \/ /\ Len(stack') = Len(stack) + 1
                   /\ Tail(Tail(stack')) = Tail(stack)
                   /\ C25_SameCall(Top, stack'[2], {1})
                   /\ stack'[1].depth = Top.depth + 1
                   /\ stack'[1].phase = "enter"]_vars

\* a listing is back at work on its third link after the directory it listed
\* first was crawled: the file found below came before the listing's own
C25_Witness ==
    /\ cpc = "running"
    /\ Len(stack) = 1
    /\ Top.phase = "html"
    /\ Top.i = 2
    /\ Len(getLog) = 2
    /\ getLog[2].depth = 1
    /\ discovered_directories = <<Url("a", "/")>>
    /\ discovered_files = <<Url("g", ".pdf"), Url("f", ".pdf")>>

-----------------------------------------------------------------------------
(* C26: while one HTML listing is parsed, at most max_files_per_directory
   new file URLs are appended from that page, and once the cap is reached no
   further link of the page is examined: nothing more is recorded from it and
   nothing is entered. *)
C26_PerDirectoryCap ==
    /\ [](\A k \in DOMAIN stack :
             stack[k].phase = "html" =>
                 stack[k].files_in_directory <= config.max_files_per_directory)
    /\ [][(cpc = "running" /\ stack # <<>> /\ Top.phase = "html") =>
             /\ discovered_files' # discovered_files =>
                   /\ Len(stack') = Len(stack)
                   /\ stack'[1].files_in_directory = Top.files_in_directory + 1
             /\ Top.files_in_directory >= config.max_files_per_directory =>
                   /\ stack' = Tail(stack)
                   /\ UNCHANGED <<discovered_files, discovered_directories,
                                  visited_urls, getLog>>]_vars

\* a page reached the cap of two files with a link still unread
C26_Witness ==
    /\ cpc = "running"
    /\ stack # <<>>
    /\ Top.phase = "html"
    /\ config.max_files_per_directory = 2
    /\ Top.files_in_directory = 2
    /\ Top.i = 2
    /\ Top.n = 3

-----------------------------------------------------------------------------
(* C27: in an HTML listing a link whose href starts with '#' or 'mailto:' or
   is '..', '../' or './' is neither recorded nor followed; crawling the
   listing 1.pdf, 1378/, ../, #anchor with max_depth 2 (the server listing no
   other file) records exactly the file <base>/1.pdf and fetches exactly one
   further URL, <base>/1378/. *)
C27_SkippedLinksAndScenario ==
    /\ [][\A link \in HtmlLinks \cup {ScenarioListing[k] : k \in DOMAIN ScenarioListing} :
             (link.href \in {"#", "mailto:", "..", "../", "./"} /\ HtmlLink(link)) =>
                 /\ UNCHANGED <<discovered_files, discovered_directories,
                                visited_urls, getLog, errors>>
                 /\ stack' = <<[Top EXCEPT !.i = @ + 1]>> \o Tail(stack)]_vars
    /\ []((cpc = "idle" /\ results # <<>>) =>
             /\ results[1].discovered_files.val = <<Url("1", ".pdf")>>
             /\ discovered_files = <<Url("1", ".pdf")>>
             /\ getLog = <<[url |-> Url("s", "/"), depth |-> 0],
                           [url |-> Url("1378", "/"), depth |-> 1]>>
             /\ Url("up", "/") \notin visited_urls
             /\ \A k \in DOMAIN discovered_directories :
                    discovered_directories[k] # Url("up", "/"))

\* the crawl of the scenario returned; <base>/1378/ listed a directory, which
\* was recorded and, at depth 2, not fetched
C27_Witness ==
    /\ cpc = "idle"
    /\ results # <<>>
    /\ Len(getLog) = 2
    /\ Len(discovered_directories) = 2
    /\ discovered_directories[1] = Url("1378", "/")
    /\ discovered_directories[2] = Url("a", "/")
    /\ discovered_files = <<Url("1", ".pdf")>>

-----------------------------------------------------------------------------
(* C28: in process_archives_by_category a failure never aborts the batch: a
   failed download, an exception while an archive is processed and an
   unsupported category all leave the executor running, so no exception leaves
   the call and the loop always has a next step until the last category is
   done.  When the call is over, exactly one result is tracked for each
   archive that was processed (its category supported, the archive not
   skipped in a scheduled run) and none for the others, and at any time no
   archive has two; a result tracked because processing raised has
   success = False, files_downloaded = 0 and files_failed = 1. *)
C28_Processed(c) ==
    /\ batch.archives[c].category \in SupportedCategories
    /\ ~(batch.is_scheduled_run
         /\ ~should_process_in_scheduled_run(batch.archives[c].category))

C28_ResultsOf(c, a) ==
    {i \in DOMAIN processing_results :
        processing_results[i].c = c /\ processing_results[i].a = a}

C28_BatchNeverAborted ==
    /\ wf.pc # "raised"
    /\ wf.pc \in {"category", "archive", "url"} => ENABLED BatchNext
    /\ \A c \in DOMAIN batch.archives :
          \A a \in 1..batch.archives[c].archive_list :
             /\ Cardinality(C28_ResultsOf(c, a)) <= 1
             /\ wf.pc = "done" =>
                   Cardinality(C28_ResultsOf(c, a)) = IF C28_Processed(c) THEN 1 ELSE 0
    /\ \A i \in DOMAIN processing_results :
          processing_results[i].raised =>
             /\ processing_results[i].success = FALSE
             /\ processing_results[i].files_downloaded = 0
             /\ processing_results[i].files_failed = 1

\* the batch is over; an unsupported category came first, then an archive
\* whose processing raised, then one with a failed download or a success
C28_Witness ==
    /\ wf.pc = "done"
    /\ \E i, j \in DOMAIN processing_results :
          /\ i < j
          /\ processing_results[i].raised
          /\ ~processing_results[j].raised
          /\ processing_results[j].urls > 0
          /\ \E c \in DOMAIN batch.archives :
                /\ c < processing_results[i].c
                /\ batch.archives[c].category \notin SupportedCategories
                /\ batch.archives[c].archive_list > 0

-----------------------------------------------------------------------------
(* C30: process_archive reports success exactly when at least one file was
   downloaded in this run and no file failed: for every result that comes from
   a return of process_archive, success holds iff files_downloaded > 0 and
   files_failed = 0, the two counts covering no more than the archive's URLs.
   So an archive all of whose files were there already (nothing downloaded,
   nothing failed) is reported with success = False. *)
C30_SuccessIffDownloadedNoneFailed ==
    \A i \in DOMAIN processing_results :
       LET result == processing_results[i] IN
       ~result.raised =>
          /\ result.files_downloaded + result.files_failed <= result.urls
          /\ result.success <=>
                (result.files_downloaded > 0 /\ result.files_failed = 0)

\* an archive with URLs, every file already there, reported as no success,
\* and an archive with a download and no failure reported as a success
C30_Witness ==
    \E i, j \in DOMAIN processing_results :
       /\ ~processing_results[i].raised
       /\ processing_results[i].urls > 0
       /\ processing_results[i].files_downloaded = 0
       /\ processing_results[i].files_failed = 0
       /\ processing_results[i].success = FALSE
       /\ ~processing_results[j].raised
       /\ processing_results[j].files_downloaded > 0
       /\ processing_results[j].success = TRUE

-----------------------------------------------------------------------------
(* C29: the blocked-substring filter gates fetching only.  A link or item of
   a listing whose URL the filter matches is recorded like any other: when it
   is downloadable it is in discovered_files after the step, when it looks
   like a directory (or a JSON item says it is one) it is in
   discovered_directories after the step; and such a URL is never added to
   visited_urls and never fetched. *)
C29_FilterMatches(url) ==
    \E pattern \in config.blocked_patterns : pattern = Lower(url.name)

C29_Downloadable(url) ==
    url.ext \in allowed_extensions \cup file_patterns

C29_HtmlRecorded(link) ==
    /\ C29_Downloadable(link.url) => InSeq(link.url, discovered_files')
    /\ ~C29_Downloadable(link.url) /\ _looks_like_directory(link)
          => InSeq(link.url, discovered_directories')

C29_JsonRecorded(item) ==
    /\ C29_Downloadable(item.url) \/ (item.kind = "dict" /\ item.type = "file")
          => InSeq(item.url, discovered_files')
    /\ item.kind = "dict" /\ ~C29_Downloadable(item.url) /\ item.type = "directory"
          => InSeq(item.url, discovered_directories')

C29_FilterGatesFetchingOnly ==
    /\ [](\A url \in URLs :
             C29_FilterMatches(url) =>
                /\ url \notin visited_urls
                /\ \A k \in DOMAIN getLog : getLog[k].url # url)
    /\ [][/\ \A link \in HtmlLinks :
                HtmlLink(link) /\ ~SkippedHref(link.href)
                               /\ C29_FilterMatches(link.url)
                    => C29_HtmlRecorded(link)
          /\ \A item \in JsonItems :
                JsonItem(item) /\ item.kind \in {"str", "dict"}
                               /\ C29_FilterMatches(item.url)
                    => C29_JsonRecorded(item)]_vars

\* a crawl has returned a blocked file and a blocked directory among what it
\* discovered, having fetched the page that links to them and neither of them
C29_Witness ==
    /\ config.blocked_patterns = {"admin", "f"}
    /\ results # <<>>
    /\ InSeq(Url("f", ".pdf"), results[1].discovered_files.val)
    /\ InSeq(Url("Admin", "/"), results[1].discovered_directories.val)
    /\ getLog # <<>>
    /\ \A k \in DOMAIN getLog : getLog[k].url \notin {Url("f", ".pdf"), Url("Admin", "/")}

=============================================================================
